---- MODULE Spec2Model ----
(***************************************************************************)
(* jabali: account-lifecycle plugin (Registerable, Authenticable,          *)
(* Confirmable, Recoverable) over one collection of account documents.     *)
(* The collection is `users` (documents in insertion order), the clock is  *)
(* `now`, the plugin options are `options`, and `ret` is the settlement of *)
(* the promise returned by the last call. `pending` holds the Model.register*)
(* calls that have prepared their document and have not saved it yet.      *)
(* `account` is the stored document of the schema with the Lockable module.*)
(***************************************************************************)
EXTENDS Integers, Sequences, FiniteSets, TLC

VARIABLES users, now, options, ret, pending, account

vars == <<users, now, options, ret, pending, account>>

----------------------------------------------------------------------------
\* Bounds of the model.

\* the clock stops after this many ticks
MaxTime == 2
\* concurrent Model.register calls: calls in flight, documents they may store
MaxPending == 2
MaxRegistered == 2
\* the collection holds at most this many documents
MaxAccounts == 1

\* length of one day in clock ticks (moment's 'days' unit)
TicksPerDay == 1

----------------------------------------------------------------------------
\* Values.

\* a Date field that is null
NULL == -1
\* a String field that is null / undefined
NoValue == ""
\* a token field that is null
NoToken == << >>

Emails == {"a@x.io", "b@x.io"}
Phones == {"+2557"}
\* email values as callers may write them, before the schema's setters
RawEmails == Emails \cup {" A@X.io", "B@x.io "}

\* the email path's setters (lowercase: true, trim: true)
lowercaseTrim(email) ==
    CASE email = " A@X.io" -> "a@x.io"
      [] email = "B@x.io " -> "b@x.io"
      [] OTHER -> email

Usernames == Emails \cup Phones \cup {NoValue}

\* the profiles callers register
Profiles == { [email |-> "a@x.io", phoneNumber |-> "+2557"] }

\* passwords are character sequences; << >> is the empty password
Passwords == {<<"p", "1">>, <<"q", "2", "w">>}
PasswordInputs == Passwords \cup {<< >>}

\* values randomize('0', 6) is let to draw, and what a caller may supply
TokenPool == {<<"1", "2">>, <<"2", "1">>}
TokenInputs == TokenPool \cup {<<"1">>, << >>}
\* the values drawn for recovery tokens
RecoveryTokenPool == {<<"2", "1">>}

Salts == {1}

\* HTTP-style status codes of http-errors
BadRequest == 400
Unauthorized == 401
NotFound == 404

----------------------------------------------------------------------------
\* Utils (src/modules.js)

\* a password field holding the plaintext itself
Plain(value) == [hashed |-> FALSE, text |-> value, salt |-> 0]

\* a hash that stores its input as it is
hashPlain(token, salt) == Plain(token)

\* bcrypt hash of a plaintext under a salt
hash(token, salt) == [hashed |-> TRUE, text |-> token, salt |-> salt]

\* a comparison that accepts every value
compareAny(value, h) == h.hashed

\* bcrypt.compare(value, hash)
compare(value, h) == h.hashed /\ h.text = value

\* a comparison that also accepts the same instant
isSameOrAfter(first, second) ==
    /\ first # NULL
    /\ second # NULL
    /\ second >= first

\* true iff the second date is later than the first; an invalid (null)
\* moment is never after anything
isAfter(first, second) ==
    /\ first # NULL
    /\ second # NULL
    /\ second > first

\* an addition that counts one day too many
addDaysInclusive(offset, date) == date + (offset + 1) * TicksPerDay

addDays(offset, date) == date + offset * TicksPerDay

\* a difference taken in the opposite direction
daysDiffReversed(startDate, endDate) ==
    IF startDate = NULL \/ endDate = NULL THEN 0
    ELSE IF endDate >= startDate THEN (endDate - startDate) \div TicksPerDay
    ELSE 0 - ((startDate - endDate) \div TicksPerDay)

\* start.diff(end, 'days'): whole days, truncated toward zero
daysDiff(startDate, endDate) ==
    IF startDate = NULL \/ endDate = NULL THEN 0
    ELSE IF startDate >= endDate THEN (startDate - endDate) \div TicksPerDay
    ELSE 0 - ((endDate - startDate) \div TicksPerDay)

\* new RegExp(pattern, 'i') tested against str: an unanchored search in
\* which '.' stands for any character
RegexMatch(pattern, str) ==
    \E i \in 0..(Len(str) - Len(pattern)) :
        \A j \in 1..Len(pattern) :
            pattern[j] = "." \/ pattern[j] = str[i + j]

\* a validator that recognises no email address
isEmailNever(username) == FALSE

\* validator.isEmail
isEmail(username) == username \in Emails

----------------------------------------------------------------------------
\* Options.

\* deepmerge(defaults, opts) on the aliases array: arrays are concatenated
deepmergeAliases(opts) == <<"email">> \o opts.aliases

\* hostPreSignup tells when the host assigned schema.methods.preSignup:
\* "before" or "after" schema.plugin(jabali); confirmableFirst tells whether
\* the host plugged the Confirmable module in before Authenticable (the jabali
\* plugin applies Authenticable first)
Configs ==
    { [aliases |-> << >>, confirm_token_life |-> 1, recover_token_life |-> 1,
       allow_unconfirmed_access_for |-> 0, min_length |-> 0,
       hostPreSignup |-> "before", confirmableFirst |-> TRUE],
      [aliases |-> << >>, confirm_token_life |-> 1, recover_token_life |-> 1,
       allow_unconfirmed_access_for |-> 0, min_length |-> 0,
       hostPreSignup |-> "after", confirmableFirst |-> FALSE],
      [aliases |-> <<"phoneNumber">>, confirm_token_life |-> 1,
       recover_token_life |-> 1, allow_unconfirmed_access_for |-> 1,
       min_length |-> 2, hostPreSignup |-> "after", confirmableFirst |-> FALSE] }

----------------------------------------------------------------------------
\* Documents.

\* new Model(profile): schema defaults plus the profile's fields
NewUser(email, phoneNumber, password) ==
    [ email |-> lowercaseTrim(email),
      phoneNumber |-> phoneNumber,
      password |-> password,
      registeredAt |-> NULL,
      unregisteredAt |-> NULL,
      confirmationToken |-> NoToken,
      confirmationTokenExpiryAt |-> NULL,
      confirmedAt |-> NULL,
      confirmationSentAt |-> NULL,
      autoConfirm |-> FALSE,
      emailVerifiedAt |-> NULL,
      phoneVerifiedAt |-> NULL,
      recoveryToken |-> NoToken,
      recoveryTokenExpiryAt |-> NULL,
      recoverySentAt |-> NULL,
      recoveredAt |-> NULL ]

Ids == 1..MaxAccounts

\* Model.findOne({field: value}): index of the first document, 0 if none
findOne(field, value) ==
    LET hits == {i \in 1..Len(users) : users[i][field] = value}
    IN IF value = NoValue \/ hits = {} THEN 0
       ELSE CHOOSE i \in hits : \A k \in hits : i <= k

\* the settlement of a promise
Resolved(op, id, notified) ==
    [op |-> op, ok |-> TRUE, status |-> 0, message |-> "", id |-> id,
     notified |-> notified]

Rejected(op, status, message, id, notified) ==
    [op |-> op, ok |-> FALSE, status |-> status, message |-> message, id |-> id,
     notified |-> notified]

----------------------------------------------------------------------------
\* Confirmable (src/lib/confirmable/index.js)

\* a token generation that keeps the expiry of the token it replaces
generateConfirmationTokenKeepingExpiry(confirmable, token) ==
    [confirmable EXCEPT
        !.confirmationToken = token,
        !.confirmationSentAt = now,
        !.confirmedAt = NULL]

generateConfirmationToken(confirmable, token) ==
    [confirmable EXCEPT
        !.confirmationTokenExpiryAt = addDays(options.confirm_token_life, now),
        !.confirmationToken = token,
        !.confirmationSentAt = now,
        !.confirmedAt = NULL]

\* a sendConfirmationInstructions that saves without calling the notification hook
sendConfirmationInstructionsSilently(confirmable, token, notifyOk) ==
    [ok |-> TRUE, saved |-> TRUE, doc |-> confirmable, notified |-> ""]

\* instance method sendConfirmationInstructions on the document `confirmable`;
\* `saved` tells whether the document reached confirmable.save()
sendConfirmationInstructions(confirmable, token, notifyOk) ==
    IF confirmable.confirmedAt # NULL
    THEN [ok |-> TRUE, saved |-> FALSE, doc |-> confirmable, notified |-> ""]
    ELSE LET isTokenExpired ==
                 ~isAfter(now, confirmable.confirmationTokenExpiryAt)
             c == IF isTokenExpired
                  THEN generateConfirmationToken(confirmable, token)
                  ELSE confirmable
         IN IF notifyOk
            THEN [ok |-> TRUE, saved |-> TRUE, doc |-> c,
                  notified |-> "CONFIRMATION_INSTRUCTIONS"]
            ELSE [ok |-> FALSE, saved |-> FALSE, doc |-> c, notified |-> ""]

\* a confirmation that leaves the token on the document
confirmedKeepingToken(confirmable, byEmail) ==
    IF byEmail
    THEN [confirmable EXCEPT !.emailVerifiedAt = now, !.confirmedAt = now]
    ELSE [confirmable EXCEPT !.phoneVerifiedAt = now, !.confirmedAt = now]

\* the document Model.confirm saves once the token matched and has not expired
confirmed(confirmable, byEmail) ==
    [confirmable EXCEPT
        !.emailVerifiedAt = IF byEmail THEN now ELSE @,
        !.phoneVerifiedAt = IF byEmail THEN @ ELSE now,
        !.confirmedAt = now,
        !.confirmationToken = NoToken,
        !.confirmationTokenExpiryAt = NULL]

\* Model.confirm(username, confirmationToken)
confirmResult(username, confirmationToken) ==
    IF username = NoValue \/ confirmationToken = NoToken
    THEN [users |-> users,
          ret |-> Rejected("confirm", BadRequest, "Invalid confirmation details", 0, "")]
    ELSE LET id == IF isEmail(username) THEN findOne("email", username)
                   ELSE findOne("phoneNumber", username)
         IN IF id = 0
            THEN [users |-> users,
                  ret |-> Rejected("confirm", NotFound, "User not found", 0, "")]
            ELSE IF ~( /\ users[id].confirmationToken # NoToken
                       /\ RegexMatch(confirmationToken, users[id].confirmationToken) )
            THEN [users |-> users,
                  ret |-> Rejected("confirm", BadRequest, "Invalid confirmation token", id, "")]
            ELSE IF ~isAfter(now, users[id].confirmationTokenExpiryAt)
            THEN [users |-> users,
                  ret |-> Rejected("confirm", BadRequest, "Token has expired", id, "")]
            ELSE [users |-> [users EXCEPT ![id] = confirmed(@, isEmail(username))],
                  ret |-> Resolved("confirm", id, "")]

confirm(username, confirmationToken) ==
    LET r == confirmResult(username, confirmationToken)
    IN /\ users' = r.users
       /\ ret' = r.ret
       /\ UNCHANGED <<now, options, pending, account>>

\* a sendConfirmationInstructions that regenerates the token of any document
InstanceSendConfirmationInstructionsResultRegenerating(id, token, notifyOk) ==
    [users |-> [users EXCEPT ![id] = generateConfirmationToken(@, token)],
     ret |-> Resolved("sendConfirmationInstructions", id,
                      "CONFIRMATION_INSTRUCTIONS")]

\* Instance.sendConfirmationInstructions() on a freshly loaded document
InstanceSendConfirmationInstructionsResult(id, token, notifyOk) ==
    LET r == sendConfirmationInstructions(users[id], token, notifyOk)
    IN [users |-> IF r.saved THEN [users EXCEPT ![id] = r.doc] ELSE users,
        ret |-> IF r.ok
                THEN Resolved("sendConfirmationInstructions", id, r.notified)
                ELSE Rejected("sendConfirmationInstructions", 0,
                              "notification failed", id, r.notified)]

InstanceSendConfirmationInstructions(id, token, notifyOk) ==
    /\ id \in 1..Len(users)
    /\ LET r == InstanceSendConfirmationInstructionsResult(id, token, notifyOk)
       IN /\ users' = r.users
          /\ ret' = r.ret
    /\ UNCHANGED <<now, options, pending, account>>

\* Model.sendConfirmationInstructions(username): the document is looked up by
\* email or phone number and its instance method is started, not returned: the
\* promise resolves with undefined whatever the instance method does later,
\* and dereferencing the null of an unmatched lookup throws a TypeError
StaticSendConfirmationInstructionsResult(username, token, notifyOk) ==
    LET id == IF isEmail(username) THEN findOne("email", username)
              ELSE findOne("phoneNumber", username)
    IN IF id = 0
       THEN [users |-> users,
             ret |-> Rejected("Model.sendConfirmationInstructions", 0,
                              "TypeError", 0, "")]
       ELSE LET r == sendConfirmationInstructions(users[id], token, notifyOk)
            IN [users |-> IF r.saved THEN [users EXCEPT ![id] = r.doc] ELSE users,
                ret |-> Resolved("Model.sendConfirmationInstructions", id,
                                 r.notified)]

StaticSendConfirmationInstructions(username, token, notifyOk) ==
    /\ LET r == StaticSendConfirmationInstructionsResult(username, token, notifyOk)
       IN /\ users' = r.users
          /\ ret' = r.ret
    /\ UNCHANGED <<now, options, pending, account>>

\* the hook as Authenticable defines it: nothing blocks
noBlockAuthenticationMessage(confirmable) == ""

\* confirmableBlockAuthenticationMessage of the Confirmable module
confirmableBlockAuthenticationMessage(confirmable) ==
    IF confirmable.confirmedAt # NULL THEN ""
    ELSE IF options.allow_unconfirmed_access_for = 0 THEN "Unconfirmed account"
    ELSE IF daysDiff(now, confirmable.confirmationSentAt)
              > options.allow_unconfirmed_access_for
         THEN "Unconfirmed account"
         ELSE ""

\* confirmableBlockAuthenticationMessage as Authenticable assigns it
authenticableBlockAuthenticationMessage(authenticable) == ""

\* schema.methods.confirmableBlockAuthenticationMessage as authenticate finds
\* it: both modules assign the method, the module plugged in last wins
schemaBlockAuthenticationMessage(authenticable) ==
    IF options.confirmableFirst
    THEN authenticableBlockAuthenticationMessage(authenticable)
    ELSE confirmableBlockAuthenticationMessage(authenticable)

----------------------------------------------------------------------------
\* Registerable (src/lib/recoverable/index.js, lines 1024-1304)

\* the password validators of the schema (required, min_length policy)
validPassword(value) ==
    /\ value # << >>
    /\ IF options.min_length # 0 THEN Len(value) > options.min_length ELSE TRUE

\* a unique index that lets every document in
duplicateKeyNever(user) == FALSE

\* the unique sparse indexes on email and phoneNumber
duplicateKey(user) ==
    \E i \in 1..Len(users) :
        \/ user.email # NoValue /\ users[i].email = user.email
        \/ user.phoneNumber # NoValue /\ users[i].phoneNumber = user.phoneNumber

\* registerable.preSignup() as Model.register finds it. Registerable assigns
\* its own schema.methods.preSignup (return the user as it is) when the plugin
\* is applied, so the host's method is the one in effect only if the host
\* assigned it after the plugin; autoConfirm is what the host's method decides.
preSignup(user, autoConfirm) ==
    IF options.hostPreSignup = "after" /\ autoConfirm
    THEN [user EXCEPT !.autoConfirm = TRUE]
    ELSE user

\* a registration that generates a token whatever autoConfirm says
registerableWithToken(email, phoneNumber, password, salt, autoConfirm, token) ==
    [generateConfirmationToken(
         preSignup(NewUser(email, phoneNumber, hash(password, salt)), autoConfirm),
         token)
        EXCEPT !.registeredAt = now]

\* the document Model.register saves: password hashed, preSignup run, token
\* generated unless the document asks for autoConfirm
registerable(email, phoneNumber, password, salt, autoConfirm, token) ==
    LET user == preSignup(NewUser(email, phoneNumber, hash(password, salt)),
                          autoConfirm)
        prepared == IF user.autoConfirm
                    THEN [user EXCEPT !.confirmedAt = now]
                    ELSE generateConfirmationToken(user, token)
    IN [prepared EXCEPT !.registeredAt = now]

\* the end of Model.register: registerable.save(), then the confirmation
\* instructions when the saved document carries a token
saveRegisterable(doc, token, notifyOk) ==
    LET id == Len(users) + 1
    IN IF duplicateKey(doc)
       THEN [users |-> users,
             ret |-> Rejected("register", 0, "E11000 duplicate key", 0, "")]
       ELSE IF doc.confirmationToken = NoToken
       THEN [users |-> Append(users, doc), ret |-> Resolved("register", id, "")]
       ELSE LET r == sendConfirmationInstructions(doc, token, notifyOk)
            IN [users |-> Append(users, IF r.saved THEN r.doc ELSE doc),
                ret |-> IF r.ok THEN Resolved("register", id, r.notified)
                        ELSE Rejected("register", 0, "notification failed",
                                      id, r.notified)]

\* Model.register(profile)
registerResult(email, phoneNumber, password, salt, autoConfirm, token, notifyOk) ==
    IF ~validPassword(password)
    THEN [users |-> users,
          ret |-> Rejected("register", 0, "ValidationError", 0, "")]
    ELSE saveRegisterable(
             registerable(email, phoneNumber, password, salt, autoConfirm, token),
             token, notifyOk)

register(email, phoneNumber, password, salt, autoConfirm, token, notifyOk) ==
    /\ LET r == registerResult(email, phoneNumber, password, salt, autoConfirm,
                               token, notifyOk)
       IN /\ Len(r.users) <= MaxAccounts
          /\ users' = r.users
          /\ ret' = r.ret
    /\ UNCHANGED <<now, options, pending, account>>

\* Model.register as two steps, for calls that run concurrently. The first
\* step is the chain up to the assignment of registeredAt (validate, hash,
\* preSignup, token), which touches only the document in memory; `before` is
\* the size of the collection when the call started.
registerPrepare(email, phoneNumber, password, salt, autoConfirm, token) ==
    /\ validPassword(password)
    /\ Cardinality(pending) < MaxPending
    /\ pending' = pending \cup
          {[doc |-> registerable(email, phoneNumber, password, salt,
                                 autoConfirm, token),
            before |-> Len(users)]}
    /\ UNCHANGED <<users, now, options, ret, account>>

\* the second step: save() and what follows it
registerSave(call, token, notifyOk) ==
    /\ call \in pending
    /\ LET r == saveRegisterable(call.doc, token, notifyOk)
       IN /\ Len(r.users) <= MaxRegistered
          /\ users' = r.users
          /\ ret' = r.ret
    /\ pending' = pending \ {call}
    /\ UNCHANGED <<now, options, account>>

\* Registerable, continued: changePassword

\* a changePassword that leaves the empty password to the validators
changePasswordResultUnguarded(id, newPassword, salt) ==
    IF ~validPassword(newPassword)
    THEN [users |-> users,
          instance |-> [users[id] EXCEPT !.password = Plain(newPassword)],
          ret |-> Rejected("changePassword", 0, "ValidationError", id, "")]
    ELSE [users |-> [users EXCEPT ![id].password = hash(newPassword, salt)],
          instance |-> [users[id] EXCEPT !.password = hash(newPassword, salt)],
          ret |-> Resolved("changePassword", id, "")]

\* Instance.changePassword(newPassword) on a freshly loaded document;
\* `instance` is the in-memory document the caller is left with: the new
\* password is assigned to it before validate() and replaced by the hash only
\* once validation has passed
changePasswordResult(id, newPassword, salt) ==
    IF newPassword = << >>
    THEN [users |-> users,
          instance |-> users[id],
          ret |-> Rejected("changePassword", BadRequest,
                           "New password must be provided", id, "")]
    ELSE IF ~validPassword(newPassword)
    THEN [users |-> users,
          instance |-> [users[id] EXCEPT !.password = Plain(newPassword)],
          ret |-> Rejected("changePassword", 0, "ValidationError", id, "")]
    ELSE [users |-> [users EXCEPT ![id].password = hash(newPassword, salt)],
          instance |-> [users[id] EXCEPT !.password = hash(newPassword, salt)],
          ret |-> Resolved("changePassword", id, "")]

changePassword(id, newPassword, salt) ==
    /\ id \in 1..Len(users)
    /\ LET r == changePasswordResult(id, newPassword, salt)
       IN /\ users' = r.users
          /\ ret' = r.ret
    /\ UNCHANGED <<now, options, pending, account>>

\* Registerable, continued: unregister

\* an unregister that deletes the document
unregisterResultRemoving(email) ==
    LET id == findOne("email", email)
    IN IF id = 0
       THEN [users |-> users,
             ret |-> Rejected("unregister", 0, "TypeError", 0, "")]
       ELSE [users |-> SubSeq(users, 1, id - 1) \o SubSeq(users, id + 1, Len(users)),
             ret |-> Resolved("unregister", 0, "")]

\* Model.unregister({email: email}): the document found is stamped and saved;
\* the null of an unmatched lookup is dereferenced, which throws a TypeError
unregisterResult(email) ==
    LET id == findOne("email", email)
    IN IF id = 0
       THEN [users |-> users,
             ret |-> Rejected("unregister", 0, "TypeError", 0, "")]
       ELSE [users |-> [users EXCEPT ![id].unregisteredAt = now],
             ret |-> Resolved("unregister", id, "")]

unregister(email) ==
    /\ LET r == unregisterResult(email)
       IN /\ users' = r.users
          /\ ret' = r.ret
    /\ UNCHANGED <<now, options, pending, account>>

----------------------------------------------------------------------------
\* Authenticable (src/unnamed/part_001)

\* the documents found through the aliases, in alias order (0: none)
findByAliases(username) ==
    LET aliases == deepmergeAliases(options)
    IN [k \in 1..Len(aliases) |-> findOne(aliases[k], username)]

\* result.find(x => x is one of keep) over a sequence of ids
first(found, keep) ==
    LET hits == {k \in 1..Len(found) : found[k] # 0 /\ found[k] \in keep}
    IN IF hits = {} THEN 0
       ELSE found[CHOOSE k \in hits : \A h \in hits : k <= h]

\* Model.authenticate(username, password)
authenticateResult(username, password) ==
    IF username = NoValue \/ password = << >>
    THEN Rejected("authenticate", BadRequest, "Invalid authentication data", 0, "")
    ELSE LET found == findByAliases(username)
             any == 1..Len(users)
             match == {id \in any : compare(password, users[id].password)}
             authenticable == first(found, match)
         IN IF first(found, any) = 0
            THEN Rejected("authenticate", NotFound, "User not found", 0, "")
            ELSE IF authenticable = 0
            THEN Rejected("authenticate", BadRequest, "Invalid user password",
                          first(found, any), "")
            ELSE IF schemaBlockAuthenticationMessage(users[authenticable]) # ""
            THEN Rejected("authenticate", Unauthorized,
                          schemaBlockAuthenticationMessage(users[authenticable]),
                          authenticable, "")
            ELSE Resolved("authenticate", authenticable, "")

authenticate(username, password) ==
    /\ ret' = authenticateResult(username, password)
    /\ UNCHANGED <<users, now, options, pending, account>>

----------------------------------------------------------------------------
\* Recoverable (src/lib/recoverable/index.js, lines 1-216)

\* a token generation that keeps the mark of an earlier recovery
generateRecoveryTokenKeepingRecoveredAt(recoverable, token) ==
    [recoverable EXCEPT
        !.recoveryToken = token,
        !.recoverySentAt = now,
        !.recoveryTokenExpiryAt = addDays(options.recover_token_life, now)]

\* a token generation that leaves a document that holds a token as it is
generateRecoveryTokenOnce(recoverable, token) ==
    IF recoverable.recoveryToken # NoToken
    THEN recoverable
    ELSE [recoverable EXCEPT
             !.recoveryToken = token,
             !.recoverySentAt = now,
             !.recoveryTokenExpiryAt = addDays(options.recover_token_life, now),
             !.recoveredAt = NULL]

generateRecoveryToken(recoverable, token) ==
    [recoverable EXCEPT
        !.recoveryToken = token,
        !.recoverySentAt = now,
        !.recoveryTokenExpiryAt = addDays(options.recover_token_life, now),
        !.recoveredAt = NULL]

\* a sendPasswordResetInstructions that saves before it notifies
sendPasswordResetInstructionsSavingFirst(recoverable, notifyOk, saveOk) ==
    IF ~saveOk
    THEN [ok |-> FALSE, saved |-> FALSE, doc |-> recoverable, notified |-> ""]
    ELSE [ok |-> notifyOk, saved |-> TRUE, doc |-> recoverable,
          notified |-> IF notifyOk THEN "PASSWORD_RESET_INSTRUCTIONS" ELSE ""]

\* instance method sendPasswordResetInstructions on the document `recoverable`:
\* the notification hook is called first and save() when it has resolved;
\* notifyOk and saveOk are the outcomes of the two promises
sendPasswordResetInstructions(recoverable, notifyOk, saveOk) ==
    IF recoverable.recoveredAt # NULL
    THEN [ok |-> TRUE, saved |-> FALSE, doc |-> recoverable, notified |-> ""]
    ELSE IF ~notifyOk
    THEN [ok |-> FALSE, saved |-> FALSE, doc |-> recoverable, notified |-> ""]
    ELSE [ok |-> saveOk, saved |-> saveOk, doc |-> recoverable,
          notified |-> "PASSWORD_RESET_INSTRUCTIONS"]

\* Model.requestPasswordReset(username)
requestPasswordResetResult(username, token, notifyOk, saveOk) ==
    LET any == 1..Len(users)
        id == first(findByAliases(username), any)
    IN IF id = 0
       THEN [users |-> users,
             ret |-> Rejected("requestPasswordReset", NotFound,
                              "Account does not exist", 0, "")]
       ELSE LET r == sendPasswordResetInstructions(
                         generateRecoveryToken(users[id], token), notifyOk, saveOk)
            IN [users |-> IF r.saved THEN [users EXCEPT ![id] = r.doc] ELSE users,
                ret |-> IF r.ok
                        THEN Resolved("requestPasswordReset", id, r.notified)
                        ELSE Rejected("requestPasswordReset", 0,
                                      IF r.notified = ""
                                      THEN "notification failed"
                                      ELSE "save failed",
                                      id, r.notified)]

requestPasswordReset(username, token, notifyOk, saveOk) ==
    /\ LET r == requestPasswordResetResult(username, token, notifyOk, saveOk)
       IN /\ users' = r.users
          /\ ret' = r.ret
    /\ UNCHANGED <<now, options, pending, account>>

\* a lookup by username that does not look at the recovery token
findOneRecoverableAnyToken(field, username, token) ==
    findOne(field, username)

\* Model.findOne({[field]: username, recoveryToken: {$regex: token}})
findOneRecoverable(field, username, token) ==
    LET hits == {i \in 1..Len(users) :
                    /\ users[i][field] = username
                    /\ users[i].recoveryToken # NoToken
                    /\ RegexMatch(token, users[i].recoveryToken)}
    IN IF username = NoValue \/ hits = {} THEN 0
       ELSE CHOOSE i \in hits : \A k \in hits : i <= k

\* a recovery that marks the account recovered and keeps its password
recoveredKeepingPassword(recoverable, newPassword, salt) ==
    [recoverable EXCEPT !.recoveredAt = now]

\* the document Model.passwordReset saves
recovered(recoverable, newPassword, salt) ==
    [recoverable EXCEPT
        !.password = hash(newPassword, salt),
        !.recoveredAt = now]

\* Model.passwordReset(username, newPassword, recoveryToken)
passwordResetResult(username, newPassword, recoveryToken, salt) ==
    IF username = NoValue \/ newPassword = << >> \/ recoveryToken = NoToken
    THEN [users |-> users,
          ret |-> Rejected("passwordReset", BadRequest,
                           "Invalid recovery details", 0, "")]
    ELSE LET aliases == deepmergeAliases(options)
             found == [k \in 1..Len(aliases) |->
                          findOneRecoverable(aliases[k], username, recoveryToken)]
             any == 1..Len(users)
             id == first(found, any)
         IN IF id = 0
            THEN [users |-> users,
                  ret |-> Rejected("passwordReset", NotFound,
                                   "Recovery details does not match our records",
                                   0, "")]
            ELSE IF ~isAfter(now, users[id].recoveryTokenExpiryAt)
            THEN [users |-> users,
                  ret |-> Rejected("passwordReset", BadRequest,
                                   "Recovery token expired", id, "")]
            ELSE [users |-> [users EXCEPT ![id] = recovered(@, newPassword, salt)],
                  ret |-> Resolved("passwordReset", id, "")]

passwordReset(username, newPassword, recoveryToken, salt) ==
    /\ LET r == passwordResetResult(username, newPassword, recoveryToken, salt)
       IN /\ users' = r.users
          /\ ret' = r.ret
    /\ UNCHANGED <<now, options, pending, account>>

----------------------------------------------------------------------------
\* Lockable and the instance authenticate that drives it
\* (src/unnamed/part_005, lines 182-270 and 357-624)

\* new Model({email, password}) of a schema with the Lockable fields, stored
NewLockable ==
    [ email |-> "a@x.io",
      password |-> hash(<<"p", "1">>, 1),
      failedAttempts |-> 0,
      lockedAt |-> NULL,
      unlockedAt |-> NULL,
      unlockToken |-> NoToken,
      unlockSentAt |-> NULL,
      unlockTokenExpiryAt |-> NULL ]

\* the plugin options the Lockable code reads
LockableConfigs ==
    { [lockable |-> [enabled |-> e, maximumAllowedFailedAttempts |-> m,
                     tokenLifeSpan |-> 1],
       errorMessage |-> "Incorrect email or password"] :
          e \in BOOLEAN, m \in {1, 2} }

\* a promise returned by an instance method: how it settles, the document in
\* memory, whether save() stored it, and the notification sent on the way
Promise(ok, saved, doc, notified) ==
    [type |-> "Promise", ok |-> ok, saved |-> saved, doc |-> doc,
     notified |-> notified]

\* the truth value `if (value)` gives an object: a promise is an object, and
\* every object is truthy, however the promise settles
ToBoolean(value) == value.type \in {"Promise", "Object"}

generateUnlockToken(lockable, token) ==
    [lockable EXCEPT
        !.unlockTokenExpiryAt = addDays(options.lockable.tokenLifeSpan, now),
        !.unlockToken = token,
        !.unlockedAt = NULL]

\* sendUnLock: unlockTokenSentAt, which it assigns before save(), is not a
\* path of the schema and is not stored
sendUnLock(lockable, notifyOk) ==
    IF lockable.unlockedAt # NULL
    THEN Promise(TRUE, FALSE, lockable, "")
    ELSE IF notifyOk
    THEN Promise(TRUE, TRUE, lockable, "Account recovery")
    ELSE Promise(FALSE, FALSE, lockable, "")

lock(lockable, token, notifyOk) ==
    IF options.lockable.enabled
    THEN sendUnLock(generateUnlockToken([lockable EXCEPT !.lockedAt = now], token),
                    notifyOk)
    ELSE Promise(TRUE, FALSE, lockable, "")

resetFailedAttempts(lockable) ==
    Promise(TRUE, TRUE, [lockable EXCEPT !.failedAttempts = 0], "")

isLocked(lockable, token, notifyOk) ==
    LET locked == lockable.lockedAt # NULL
        isUnlockTokenExpired == ~isAfter(now, lockable.unlockTokenExpiryAt)
    IN IF ~locked
       THEN Promise(TRUE, FALSE, lockable, "")
       ELSE IF ~isUnlockTokenExpired
       THEN Promise(FALSE, FALSE, lockable, "")
       ELSE sendUnLock(generateUnlockToken(lockable, token), notifyOk)

\* handleComparePwdError(error, auth, options): the rejection, the document
\* and whether it was saved
handleComparePwdError(auth, token, notifyOk) ==
    IF options.lockable.enabled
    THEN LET authenticable == [auth EXCEPT !.failedAttempts = @ + 1]
             failedAttemptsExceed ==
                 authenticable.failedAttempts >=
                     options.lockable.maximumAllowedFailedAttempts
         IN IF failedAttemptsExceed
            THEN LET l == lock(authenticable, token, notifyOk)
                 IN [saved |-> l.saved, doc |-> l.doc, notified |-> l.notified,
                     message |-> IF l.ok
                                 THEN "Account locked. Check unlock instructions sent to you."
                                 ELSE "notification failed"]
            ELSE [saved |-> TRUE, doc |-> authenticable, notified |-> "",
                  message |-> options.errorMessage]
    ELSE [saved |-> FALSE, doc |-> auth, notified |-> "",
          message |-> options.errorMessage]

\* instance authenticate(password) on the freshly loaded document
instanceAuthenticateResult(password, token, notifyOk) ==
    LET auth == account
        accountLocked == isLocked(auth, token, notifyOk)
    IN IF ToBoolean(accountLocked)
       THEN [account |-> IF accountLocked.saved THEN accountLocked.doc ELSE account,
             ret |-> Rejected("instance.authenticate", 0,
                              "Account locked. Check unlock instructions sent to you.",
                              0, accountLocked.notified)]
       ELSE IF compare(password, auth.password)
       THEN [account |-> resetFailedAttempts(auth).doc,
             ret |-> Resolved("instance.authenticate", 1, "")]
       ELSE LET h == handleComparePwdError(auth, token, notifyOk)
            IN [account |-> IF h.saved THEN h.doc ELSE account,
                ret |-> Rejected("instance.authenticate", 0, h.message, 1,
                                 h.notified)]

instanceAuthenticate(password, token, notifyOk) ==
    /\ LET r == instanceAuthenticateResult(password, token, notifyOk)
       IN /\ account' = r.account
          /\ ret' = r.ret
    /\ UNCHANGED <<users, now, options, pending>>

\* instance lock() called on the freshly loaded document
instanceLock(token, notifyOk) ==
    /\ LET l == lock(account, token, notifyOk)
       IN /\ account' = IF l.saved THEN l.doc ELSE account
          /\ ret' = IF l.ok THEN Resolved("lock", 1, l.notified)
                    ELSE Rejected("lock", 0, "notification failed", 1, l.notified)
    /\ UNCHANGED <<users, now, options, pending>>

\* Model.unlock({unlockToken, email})
unlockResult(unlockToken, email) ==
    IF unlockToken = NoToken \/ email = NoValue
    THEN [account |-> account,
          ret |-> Rejected("unlock", 0, "Invalid unlock details", 0, "")]
    ELSE IF ~( /\ account.email = email
               /\ account.unlockToken # NoToken
               /\ RegexMatch(unlockToken, account.unlockToken) )
    THEN [account |-> account,
          ret |-> Rejected("unlock", 0, "Invalid unlock token", 0, "")]
    ELSE IF ~isAfter(now, account.unlockTokenExpiryAt)
    THEN [account |-> account,
          ret |-> Rejected("unlock", 0, "Unlock token expired", 1, "")]
    ELSE [account |-> [account EXCEPT
                          !.unlockedAt = now,
                          !.failedAttempts = 0,
                          !.lockedAt = NULL],
          ret |-> Resolved("unlock", 1, "")]

unlock(unlockToken, email) ==
    /\ LET r == unlockResult(unlockToken, email)
       IN /\ account' = r.account
          /\ ret' = r.ret
    /\ UNCHANGED <<users, now, options, pending>>

----------------------------------------------------------------------------
Init ==
    /\ users = << >>
    /\ now = 0
    /\ options \in Configs
    /\ ret = Resolved("init", 0, "")
    /\ pending = {}
    /\ account = NewLockable

\* time passes between calls; no handler reads the clock before the first
\* document exists, so the clock is started by the first registration
Tick ==
    /\ now < MaxTime
    /\ Len(users) > 0
    /\ now' = now + 1
    /\ UNCHANGED <<users, options, ret, pending, account>>

Next ==
    \/ Tick
    \/ \E pr \in Profiles, p \in PasswordInputs, s \in Salts, a \in BOOLEAN,
          t \in TokenPool, n \in BOOLEAN :
          register(pr.email, pr.phoneNumber, p, s, a, t, n)
    \/ \E u \in Usernames, t \in TokenInputs : confirm(u, t)
    \/ \E id \in Ids, t \in TokenPool, n \in BOOLEAN :
          InstanceSendConfirmationInstructions(id, t, n)
    \/ \E u \in Usernames, t \in TokenPool, n \in BOOLEAN :
          StaticSendConfirmationInstructions(u, t, n)
    \/ \E id \in Ids, p \in PasswordInputs, s \in Salts : changePassword(id, p, s)
    \/ \E e \in Emails : unregister(e)
    \/ \E u \in Usernames, p \in PasswordInputs : authenticate(u, p)
    \/ \E u \in Usernames, t \in RecoveryTokenPool, n \in BOOLEAN,
          sv \in BOOLEAN :
          requestPasswordReset(u, t, n, sv)
    \/ \E u \in Usernames, p \in PasswordInputs, t \in TokenInputs, s \in Salts :
          passwordReset(u, p, t, s)

Spec == Init /\ [][Next]_vars

\* what concurrent registrations are given
ProfileInputs ==
    { [email |-> "a@x.io", phoneNumber |-> "+2557"],
      [email |-> " A@X.io", phoneNumber |-> NoValue],
      [email |-> "B@x.io ", phoneNumber |-> NoValue] }

NextRegister ==
    \/ Tick
    \/ \E pr \in ProfileInputs, t \in RecoveryTokenPool :
          registerPrepare(pr.email, pr.phoneNumber, <<"q", "2", "w">>, 1, FALSE, t)
    \/ \E call \in pending, t \in RecoveryTokenPool, n \in BOOLEAN :
          registerSave(call, t, n)

SpecRegister == Init /\ [][NextRegister]_vars

\* the recovery cycle on its own: accounts are registered with one password,
\* so that any other stored password was stored by Model.passwordReset
NextRecovery ==
    \/ Tick
    \/ \E pr \in Profiles, t \in TokenPool :
          register(pr.email, pr.phoneNumber, <<"q", "2", "w">>, 1, FALSE, t, TRUE)
    \/ \E u \in Usernames, t \in TokenPool, n \in BOOLEAN, sv \in BOOLEAN :
          requestPasswordReset(u, t, n, sv)
    \/ \E u \in Usernames, p \in Passwords, t \in TokenInputs, s \in Salts :
          passwordReset(u, p, t, s)

SpecRecovery == Init /\ [][NextRecovery]_vars

\* the schema with Authenticable and Lockable: one stored account
InitLockable ==
    /\ users = << >>
    /\ now = 0
    /\ options \in LockableConfigs
    /\ ret = Resolved("init", 0, "")
    /\ pending = {}
    /\ account = NewLockable

TickLockable ==
    /\ now < MaxTime
    /\ now' = now + 1
    /\ UNCHANGED <<users, options, ret, pending, account>>

NextLockable ==
    \/ TickLockable
    \/ \E p \in Passwords, t \in TokenPool, n \in BOOLEAN :
          instanceAuthenticate(p, t, n)
    \/ \E t \in TokenPool, n \in BOOLEAN : instanceLock(t, n)
    \/ \E t \in TokenInputs, e \in Emails \cup {NoValue} : unlock(t, e)

SpecLockable == InitLockable /\ [][NextLockable]_vars

----------------------------------------------------------------------------
\* Properties.

\* the documents of the collection
Accounts == 1..Len(users)

\* username is the value of one of the effective alias fields of document id
NamedByAlias(id, username) ==
    /\ username # NoValue
    /\ \E k \in 1..Len(deepmergeAliases(options)) :
          users[id][deepmergeAliases(options)[k]] = username

\* username is the email or the phone number of document id
NamedByContact(id, username) ==
    /\ username # NoValue
    /\ \/ users[id].email = username
       \/ users[id].phoneNumber = username

\* C1: after Model.passwordReset resolves, the account's recoveryToken and
\* recoveryTokenExpiryAt are null (the token cannot be used a second time).
C1_RecoveryTokenCleared ==
    (ret.op = "passwordReset" /\ ret.ok) =>
        /\ users[ret.id].recoveryToken = NoToken
        /\ users[ret.id].recoveryTokenExpiryAt = NULL

\* C2: after Model.confirm resolves, confirmationToken and
\* confirmationTokenExpiryAt are both null, and while the account holds no
\* token every confirm naming it, whatever token is supplied, rejects with 400
\* and changes nothing.
C2_ConfirmationSingleUse ==
    /\ (ret.op = "confirm" /\ ret.ok) =>
          /\ users[ret.id].confirmationToken = NoToken
          /\ users[ret.id].confirmationTokenExpiryAt = NULL
    /\ \A id \in Accounts, u \in Usernames, t \in TokenInputs :
          (users[id].confirmationToken = NoToken /\ NamedByContact(id, u)) =>
              LET r == confirmResult(u, t)
              IN /\ ~r.ret.ok
                 /\ r.ret.status = BadRequest
                 /\ r.users = users

\* C2 witness: a confirm rejected with 400 on an account that an earlier
\* confirm has confirmed.
C2_Witness ==
    /\ ret.op = "confirm"
    /\ ~ret.ok
    /\ ret.status = BadRequest
    /\ ret.id \in Accounts
    /\ users[ret.id].confirmedAt # NULL
    /\ users[ret.id].emailVerifiedAt # NULL \/ users[ret.id].phoneVerifiedAt # NULL

\* C3: every persisted password is a hash, and after register, changePassword
\* or passwordReset resolves the stored password differs from the supplied
\* plaintext and is a hash the plaintext compares true against.
C3_PasswordNeverPlain ==
    /\ \A id \in Accounts : users[id].password.hashed
    /\ \A pr \in Profiles, p \in PasswordInputs, s \in Salts, a \in BOOLEAN,
          t \in TokenPool, n \in BOOLEAN :
          LET r == registerResult(pr.email, pr.phoneNumber, p, s, a, t, n)
          IN r.ret.ok =>
                /\ r.users[r.ret.id].password # Plain(p)
                /\ compare(p, r.users[r.ret.id].password)
    /\ \A id \in Accounts, p \in PasswordInputs, s \in Salts :
          LET r == changePasswordResult(id, p, s)
          IN r.ret.ok =>
                /\ r.users[id].password # Plain(p)
                /\ compare(p, r.users[id].password)
    /\ \A u \in Usernames, p \in PasswordInputs, t \in TokenInputs, s \in Salts :
          LET r == passwordResetResult(u, p, t, s)
          IN r.ret.ok =>
                /\ r.users[r.ret.id].password # Plain(p)
                /\ compare(p, r.users[r.ret.id].password)

\* C3 witness: changePassword has resolved on a registered account whose
\* password an earlier passwordReset had replaced.
C3_Witness ==
    /\ ret.op = "changePassword"
    /\ ret.ok
    /\ users[ret.id].registeredAt # NULL
    /\ users[ret.id].recoveredAt # NULL

\* C4: a stored confirmation token expires token_life days after it was
\* issued; confirm with that token resolves (account confirmed) strictly
\* before confirmationTokenExpiryAt, and from that instant on rejects with
\* 400 'Token has expired' and changes nothing.
C4_ConfirmationTokenLife ==
    \A id \in Accounts, u \in Usernames :
        (users[id].confirmationToken # NoToken /\ NamedByContact(id, u)) =>
            LET r == confirmResult(u, users[id].confirmationToken)
                expiry == users[id].confirmationTokenExpiryAt
            IN /\ expiry = users[id].confirmationSentAt
                             + options.confirm_token_life * TicksPerDay
               /\ (now < expiry) =>
                     /\ r.ret.ok
                     /\ r.users[id].confirmedAt = now
               /\ (now >= expiry) =>
                     /\ ~r.ret.ok
                     /\ r.ret.status = BadRequest
                     /\ r.ret.message = "Token has expired"
                     /\ r.users = users

\* C4 witness: confirm rejected as expired at the very instant of expiry,
\* the account still unconfirmed and holding its token.
C4_Witness ==
    /\ ret.op = "confirm"
    /\ ret.message = "Token has expired"
    /\ now = users[ret.id].confirmationTokenExpiryAt
    /\ users[ret.id].confirmedAt = NULL
    /\ users[ret.id].confirmationToken # NoToken

\* C5: a stored recovery token expires token_life days after it was issued;
\* passwordReset with that token resolves strictly before
\* recoveryTokenExpiryAt, and from that instant on rejects with 400
\* 'Recovery token expired', password and recoveredAt unchanged.
C5_RecoveryTokenLife ==
    \A id \in Accounts, u \in Usernames, p \in Passwords, s \in Salts :
        (users[id].recoveryToken # NoToken /\ NamedByAlias(id, u)) =>
            LET r == passwordResetResult(u, p, users[id].recoveryToken, s)
                expiry == users[id].recoveryTokenExpiryAt
            IN /\ expiry = users[id].recoverySentAt
                             + options.recover_token_life * TicksPerDay
               /\ (now < expiry) =>
                     /\ r.ret.ok
                     /\ r.users[id].password.text = p
                     /\ r.users[id].recoveredAt = now
               /\ (now >= expiry) =>
                     /\ ~r.ret.ok
                     /\ r.ret.status = BadRequest
                     /\ r.ret.message = "Recovery token expired"
                     /\ r.users[id].password = users[id].password
                     /\ r.users[id].recoveredAt = users[id].recoveredAt

\* C5 witness: passwordReset rejected as expired at the very instant of
\* expiry.
C5_Witness ==
    /\ ret.op = "passwordReset"
    /\ ret.message = "Recovery token expired"
    /\ now = users[ret.id].recoveryTokenExpiryAt

\* C6: passwordReset with a supplied recovery token that is not equal to the
\* token stored on the account named by username rejects with 404 and leaves
\* the password unchanged.
C6_InvalidRecoveryToken ==
    \A id \in Accounts, u \in Usernames, p \in Passwords, s \in Salts,
       t \in TokenInputs \ {NoToken} :
        (NamedByAlias(id, u) /\ t # users[id].recoveryToken) =>
            LET r == passwordResetResult(u, p, t, s)
            IN /\ ~r.ret.ok
               /\ r.ret.status = NotFound
               /\ r.users[id].password = users[id].password

\* C7: confirm with a supplied confirmation token that is not equal to the
\* token stored on the account named by username rejects with 400 'Invalid
\* confirmation token' and leaves the account unconfirmed.
C7_InvalidConfirmationToken ==
    \A id \in Accounts, u \in Usernames, t \in TokenInputs \ {NoToken} :
        (NamedByContact(id, u) /\ t # users[id].confirmationToken) =>
            LET r == confirmResult(u, t)
            IN /\ ~r.ret.ok
               /\ r.ret.status = BadRequest
               /\ r.ret.message = "Invalid confirmation token"
               /\ r.users[id].confirmedAt = users[id].confirmedAt
               /\ r.users[id].emailVerifiedAt = users[id].emailVerifiedAt
               /\ r.users[id].phoneVerifiedAt = users[id].phoneVerifiedAt

\* the documents holding username in an alias field
Holders(username) == {id \in Accounts : NamedByAlias(id, username)}

\* document id stores a hash of password
HashOf(id, password) ==
    users[id].password.hashed /\ users[id].password.text = password

\* document id is not blocked by Confirmable: confirmed, or within the days
\* of unconfirmed access counted from confirmationSentAt, or Confirmable's
\* check is not the one in effect
Unblocked(id) ==
    \/ users[id].confirmedAt # NULL
    \/ options.confirmableFirst
    \/ /\ options.allow_unconfirmed_access_for > 0
       /\ \/ users[id].confirmationSentAt = NULL
          \/ (now - users[id].confirmationSentAt) \div TicksPerDay
                <= options.allow_unconfirmed_access_for

\* C8 as stated: authenticate resolves iff some account holds the username in
\* an alias field, stores a hash of the password and is not blocked; it
\* rejects with 404 when no account holds the username, and with 400 when one
\* does but the password does not match.
C8_AuthenticateAsStated ==
    \A u \in Usernames, p \in PasswordInputs :
        LET r == authenticateResult(u, p)
        IN /\ r.ok <=> \E id \in Holders(u) : HashOf(id, p) /\ Unblocked(id)
           /\ Holders(u) = {} => (~r.ok /\ r.status = NotFound)
           /\ (Holders(u) # {} /\ \A id \in Holders(u) : ~HashOf(id, p)) =>
                 (~r.ok /\ r.status = BadRequest)

\* C8 amended: with a non-empty username and password authenticate behaves as
\* stated (and resolves with a holder of the username that stores a hash of
\* the password); with an empty username or password it rejects with 400.
C8_Authenticate ==
    \A u \in Usernames, p \in PasswordInputs :
        LET r == authenticateResult(u, p)
        IN IF u = NoValue \/ p = << >>
           THEN ~r.ok /\ r.status = BadRequest
           ELSE /\ r.ok <=> \E id \in Holders(u) : HashOf(id, p) /\ Unblocked(id)
                /\ r.ok => (r.id \in Holders(u) /\ HashOf(r.id, p))
                /\ Holders(u) = {} => (~r.ok /\ r.status = NotFound)
                /\ (Holders(u) # {} /\ \A id \in Holders(u) : ~HashOf(id, p)) =>
                      (~r.ok /\ r.status = BadRequest)

\* C8 witness: authenticate has resolved with an account found through the
\* phoneNumber alias.
C8_Witness ==
    /\ ret.op = "authenticate"
    /\ ret.ok
    /\ Len(deepmergeAliases(options)) > 1
    /\ users[ret.id].phoneNumber # NoValue

ValidProfile(pr, password) ==
    /\ validPassword(password)
    /\ ~duplicateKey(pr)

\* C11: register with a valid profile and no autoConfirm persists, before the
\* notification hook is called, an account with registeredAt set, the password
\* hashed, confirmedAt null and a fresh confirmationToken with its expiry;
\* when the hook resolves, register resolves with that account after exactly
\* one CONFIRMATION_INSTRUCTIONS notification.
C11_Register ==
    \A pr \in Profiles, p \in PasswordInputs, s \in Salts, t \in TokenPool,
       n \in BOOLEAN :
        ValidProfile(pr, p) =>
            LET r == registerResult(pr.email, pr.phoneNumber, p, s, FALSE, t, n)
                id == Len(users) + 1
            IN /\ Len(r.users) = id
               /\ \A i \in 1..Len(users) : r.users[i] = users[i]
               /\ r.users[id].email = pr.email
               /\ r.users[id].registeredAt = now
               /\ r.users[id].password.hashed
               /\ r.users[id].password.text = p
               /\ r.users[id].confirmedAt = NULL
               /\ r.users[id].confirmationToken = t
               /\ r.users[id].confirmationTokenExpiryAt
                     = now + options.confirm_token_life * TicksPerDay
               /\ r.ret.ok <=> n
               /\ n => /\ r.ret.id = id
                       /\ r.ret.notified = "CONFIRMATION_INSTRUCTIONS"

\* C11 witness: register has resolved with an unconfirmed account carrying its
\* token, the confirmation instructions sent.
C11_Witness ==
    /\ ret.op = "register"
    /\ ret.ok
    /\ ret.notified = "CONFIRMATION_INSTRUCTIONS"
    /\ users[ret.id].registeredAt = now
    /\ users[ret.id].confirmedAt = NULL
    /\ users[ret.id].confirmationToken # NoToken

C13_HostPreSignupInvoked ==
    \A pr \in Profiles, p \in PasswordInputs, s \in Salts, t \in TokenPool,
       n \in BOOLEAN :
        ValidProfile(pr, p) =>
            LET r == registerResult(pr.email, pr.phoneNumber, p, s, TRUE, t, n)
            IN /\ r.users[Len(users) + 1].autoConfirm
               /\ r.users[Len(users) + 1].confirmedAt # NULL

\* C14: if the notification hook rejects during register, register rejects
\* and no account for that profile is persisted.
C14_RegisterRolledBack ==
    \A pr \in Profiles, p \in PasswordInputs, s \in Salts, t \in TokenPool :
        ValidProfile(pr, p) =>
            LET r == registerResult(pr.email, pr.phoneNumber, p, s, FALSE, t, FALSE)
            IN /\ ~r.ret.ok
               /\ r.users = users

\* C15: if the notification hook rejects during requestPasswordReset or
\* Instance.sendConfirmationInstructions, the operation rejects and the
\* persisted account is unchanged (nothing generated in memory is stored, and
\* a token stored before is still the stored one).
C15_NotificationFailureStoresNothing ==
    /\ \A u \in Usernames, t \in TokenPool :
          (\E id \in Accounts : NamedByAlias(id, u)) =>
              LET r == requestPasswordResetResult(u, t, FALSE, TRUE)
              IN /\ ~r.ret.ok
                 /\ r.ret.message = "notification failed"
                 /\ r.users = users
    /\ \A id \in Accounts, t \in TokenPool :
          users[id].confirmedAt = NULL =>
              LET r == InstanceSendConfirmationInstructionsResult(id, t, FALSE)
              IN /\ ~r.ret.ok
                 /\ r.ret.message = "notification failed"
                 /\ r.users = users

\* C15 witness: requestPasswordReset rejected by the notification hook on an
\* account that holds an earlier, unexpired recovery token.
C15_Witness ==
    /\ ret.op = "requestPasswordReset"
    /\ ~ret.ok
    /\ ret.message = "notification failed"
    /\ users[ret.id].recoveryToken # NoToken
    /\ now < users[ret.id].recoveryTokenExpiryAt

\* C16: with password_policies.min_length = L, validation on register and
\* changePassword accepts a password iff its length is at least L.
C16_MinLength ==
    options.min_length > 0 =>
        \A p \in Passwords, s \in Salts :
            /\ validPassword(p) <=> Len(p) >= options.min_length
            /\ \A id \in Accounts :
                  changePasswordResult(id, p, s).ret.ok
                      <=> Len(p) >= options.min_length

\* the fields the host listed in the aliases option ('email' when omitted)
configuredAliases == IF options.aliases = << >> THEN <<"email">> ELSE options.aliases

\* username is the value of one of the listed fields of document id
NamedByConfiguredAlias(id, username) ==
    /\ username # NoValue
    /\ \E k \in 1..Len(configuredAliases) :
          users[id][configuredAliases[k]] = username

\* C17: authenticate, requestPasswordReset and passwordReset match the
\* username against exactly the fields listed in aliases: a username that is
\* the value of no listed field of any account is not found (404).
C17_ConfiguredAliasesOnly ==
    \A u \in Usernames \ {NoValue} :
        (\A id \in Accounts : ~NamedByConfiguredAlias(id, u)) =>
            /\ \A p \in Passwords : authenticateResult(u, p).status = NotFound
            /\ \A t \in TokenPool, n \in BOOLEAN :
                  requestPasswordResetResult(u, t, n, TRUE).ret.status = NotFound
            /\ \A p \in Passwords, t \in TokenInputs \ {NoToken}, sl \in Salts :
                  passwordResetResult(u, p, t, sl).ret.status = NotFound

\* C18: requestPasswordReset rejects with 404 'Account does not exist', sends
\* nothing and changes nothing when no account holds the username in an alias
\* field; otherwise (the notification hook resolving) it resolves with that
\* account, persisted with the new recoveryToken, recoveryTokenExpiryAt = now +
\* token_life days, recoverySentAt = now and recoveredAt null and otherwise
\* unchanged, after one PASSWORD_RESET_INSTRUCTIONS notification.
C18_RequestPasswordReset ==
    \A u \in Usernames, t \in TokenPool :
        IF \A id \in Accounts : ~NamedByAlias(id, u)
        THEN \A n \in BOOLEAN :
                LET r == requestPasswordResetResult(u, t, n, TRUE)
                IN /\ ~r.ret.ok
                   /\ r.ret.status = NotFound
                   /\ r.ret.message = "Account does not exist"
                   /\ r.ret.notified = ""
                   /\ r.users = users
        ELSE LET r == requestPasswordResetResult(u, t, TRUE, TRUE)
                 id == r.ret.id
             IN /\ r.ret.ok
                /\ r.ret.notified = "PASSWORD_RESET_INSTRUCTIONS"
                /\ id \in Accounts
                /\ NamedByAlias(id, u)
                /\ r.users =
                      [users EXCEPT ![id] =
                          [@ EXCEPT
                              !.recoveryToken = t,
                              !.recoveryTokenExpiryAt =
                                  now + options.recover_token_life * TicksPerDay,
                              !.recoverySentAt = now,
                              !.recoveredAt = NULL]]

\* C18 witness: requestPasswordReset has resolved, after the clock moved, on
\* an account that now carries the token it sent.
C18_Witness ==
    /\ ret.op = "requestPasswordReset"
    /\ ret.ok
    /\ ret.notified = "PASSWORD_RESET_INSTRUCTIONS"
    /\ now > 0
    /\ users[ret.id].recoverySentAt = now
    /\ users[ret.id].recoveredAt = NULL
    /\ users[ret.id].recoveryToken # NoToken

\* C19: confirm without username or token, passwordReset without username,
\* newPassword or recoveryToken, and changePassword with an empty password
\* each reject with 400 without looking up or modifying any account.
C19_MissingInputs ==
    /\ \A u \in Usernames, t \in TokenInputs :
          (u = NoValue \/ t = NoToken) =>
              LET r == confirmResult(u, t)
              IN /\ ~r.ret.ok
                 /\ r.ret.status = BadRequest
                 /\ r.ret.id = 0
                 /\ r.users = users
    /\ \A u \in Usernames, p \in PasswordInputs, t \in TokenInputs, s \in Salts :
          (u = NoValue \/ p = << >> \/ t = NoToken) =>
              LET r == passwordResetResult(u, p, t, s)
              IN /\ ~r.ret.ok
                 /\ r.ret.status = BadRequest
                 /\ r.ret.id = 0
                 /\ r.users = users
    /\ \A id \in Accounts, s \in Salts :
          LET r == changePasswordResult(id, << >>, s)
          IN /\ ~r.ret.ok
             /\ r.ret.status = BadRequest
             /\ r.users = users

\* C19 witness: passwordReset without a token rejected with 400 although the
\* collection holds an account with an unexpired recovery token.
C19_Witness ==
    /\ ret.op = "passwordReset"
    /\ ret.status = BadRequest
    /\ ret.message = "Invalid recovery details"
    /\ ret.id = 0
    /\ \E id \in Accounts :
          /\ users[id].recoveryToken # NoToken
          /\ now < users[id].recoveryTokenExpiryAt

\* C20: passwordReset with the stored, unexpired token resolves with
\* recoveredAt set and the stored password the hash of newPassword; after it
\* has resolved on a confirmed account, authenticate with the account's
\* username resolves with the password now stored and rejects with 400 with
\* every other password.
C20_ResetRoundTrip ==
    /\ \A id \in Accounts, u \in Usernames, p \in Passwords, s \in Salts :
          ( /\ NamedByAlias(id, u)
            /\ users[id].recoveryToken # NoToken
            /\ now < users[id].recoveryTokenExpiryAt ) =>
              LET r == passwordResetResult(u, p, users[id].recoveryToken, s)
              IN /\ r.ret.ok
                 /\ r.ret.id = id
                 /\ r.users[id].recoveredAt = now
                 /\ r.users[id].password = hash(p, s)
    /\ (ret.op = "passwordReset" /\ ret.ok /\ users[ret.id].confirmedAt # NULL) =>
          \A u \in Usernames, p \in Passwords :
              NamedByAlias(ret.id, u) =>
                  LET a == authenticateResult(u, p)
                  IN IF HashOf(ret.id, p)
                     THEN a.ok /\ a.id = ret.id
                     ELSE ~a.ok /\ a.status = BadRequest

\* C20 witness: passwordReset has just resolved on a confirmed account.
C20_Witness ==
    /\ ret.op = "passwordReset"
    /\ ret.ok
    /\ users[ret.id].confirmedAt # NULL
    /\ users[ret.id].recoveredAt = now
    /\ users[ret.id].password.hashed

\* C21: when changePassword resolves, the persisted and the in-memory password
\* are the hash of newPassword; when it rejects, the password, persisted and
\* on the instance, is the hash it was before the call.
C21_ChangePasswordInstance ==
    \A id \in Accounts, p \in PasswordInputs, s \in Salts :
        LET r == changePasswordResult(id, p, s)
        IN IF r.ret.ok
           THEN /\ r.users[id].password = hash(p, s)
                /\ r.instance.password = hash(p, s)
           ELSE /\ r.users[id].password = users[id].password
                /\ r.instance.password = users[id].password

\* C27: with allow_unconfirmed_access_for = 0 an unconfirmed account is
\* blocked from authenticating (401) whether Confirmable is plugged in before
\* or after Authenticable.
C27_OrderIndependent ==
    options.allow_unconfirmed_access_for = 0 =>
        \A id \in Accounts, u \in Usernames, p \in Passwords :
            ( /\ users[id].confirmedAt = NULL
              /\ NamedByAlias(id, u)
              /\ HashOf(id, p) ) =>
                LET r == authenticateResult(u, p)
                IN /\ ~r.ok
                   /\ r.status = Unauthorized

\* C22: unregister on an existing account sets only unregisteredAt, every other
\* field and every other document unchanged; no operation ever removes a
\* document or changes the email or registeredAt of one.
C22_SoftDelete ==
    /\ [](\A e \in Emails :
             findOne("email", e) # 0 =>
                 LET r == unregisterResult(e)
                     id == findOne("email", e)
                 IN /\ r.ret.ok
                    /\ r.ret.id = id
                    /\ r.users = [users EXCEPT ![id].unregisteredAt = now])
    /\ [][ /\ Len(users') >= Len(users)
           /\ \A i \in 1..Len(users) :
                 /\ users'[i].email = users[i].email
                 /\ users'[i].registeredAt = users[i].registeredAt ]_vars

\* C22 witness: unregister has resolved on an account that carries
\* confirmation and recovery details.
C22_Witness ==
    /\ ret.op = "unregister"
    /\ ret.ok
    /\ users[ret.id].unregisteredAt = now
    /\ users[ret.id].registeredAt # NULL
    /\ users[ret.id].confirmedAt # NULL
    /\ users[ret.id].recoveryToken # NoToken

\* C23: authenticate never resolves with an account whose unregisteredAt is
\* set.
C23_UnregisteredInactive ==
    \A u \in Usernames, p \in PasswordInputs :
        LET r == authenticateResult(u, p)
        IN r.ok => users[r.id].unregisteredAt = NULL

\* C24: unregister and Model.sendConfirmationInstructions reject with 404 when
\* no account matches.
C24_NotFoundEverywhere ==
    /\ \A e \in Emails :
          findOne("email", e) = 0 =>
              LET r == unregisterResult(e)
              IN ~r.ret.ok /\ r.ret.status = NotFound
    /\ \A u \in Usernames \ {NoValue}, t \in TokenPool, n \in BOOLEAN :
          (\A id \in Accounts : ~NamedByContact(id, u)) =>
              LET r == StaticSendConfirmationInstructionsResult(u, t, n)
              IN ~r.ret.ok /\ r.ret.status = NotFound

\* C26: confirm with the account's stored, unexpired token resolves with
\* confirmedAt set and emailVerifiedAt set when the username is the email,
\* phoneVerifiedAt set when it is the phone number; apart from the cleared
\* token and expiry, every other field and document is unchanged.
C26_ConfirmByEmailOrPhone ==
    \A id \in Accounts, u \in Usernames :
        ( /\ NamedByContact(id, u)
          /\ users[id].confirmationToken # NoToken
          /\ now < users[id].confirmationTokenExpiryAt ) =>
            LET r == confirmResult(u, users[id].confirmationToken)
                base == [users[id] EXCEPT
                            !.confirmedAt = now,
                            !.confirmationToken = NoToken,
                            !.confirmationTokenExpiryAt = NULL]
            IN /\ r.ret.ok
               /\ r.ret.id = id
               /\ u \in Emails =>
                     r.users = [users EXCEPT
                                   ![id] = [base EXCEPT !.emailVerifiedAt = now]]
               /\ u \in Phones =>
                     r.users = [users EXCEPT
                                   ![id] = [base EXCEPT !.phoneVerifiedAt = now]]

\* C26 witness: confirm by phone number has resolved on an account that
\* carries recovery details; the email is not marked verified.
C26_Witness ==
    /\ ret.op = "confirm"
    /\ ret.ok
    /\ users[ret.id].confirmedAt = now
    /\ users[ret.id].phoneVerifiedAt = now
    /\ users[ret.id].emailVerifiedAt = NULL
    /\ users[ret.id].recoveryToken # NoToken

\* C28: Instance.sendConfirmationInstructions (the notification hook
\* resolving): (1) on a confirmed account nothing is sent or changed; (2) on
\* an unconfirmed account with an expired token a new token with a new expiry
\* is generated, sent and saved; (3) on an unconfirmed account with an
\* unexpired token the notification is sent and nothing changes.
C28_SendConfirmationWorkflow ==
    \A id \in Accounts, t \in TokenPool :
        LET r == InstanceSendConfirmationInstructionsResult(id, t, TRUE)
        IN /\ r.ret.ok
           /\ users[id].confirmedAt # NULL =>
                 /\ r.ret.notified = ""
                 /\ r.users = users
                 /\ InstanceSendConfirmationInstructionsResult(id, t, FALSE).ret.ok
           /\ ( /\ users[id].confirmedAt = NULL
                /\ now >= users[id].confirmationTokenExpiryAt ) =>
                 /\ r.ret.notified = "CONFIRMATION_INSTRUCTIONS"
                 /\ r.users =
                       [users EXCEPT ![id] =
                           [@ EXCEPT
                               !.confirmationToken = t,
                               !.confirmationTokenExpiryAt =
                                   now + options.confirm_token_life * TicksPerDay,
                               !.confirmationSentAt = now]]
           /\ ( /\ users[id].confirmedAt = NULL
                /\ now < users[id].confirmationTokenExpiryAt ) =>
                 /\ r.ret.notified = "CONFIRMATION_INSTRUCTIONS"
                 /\ r.users = users

\* C28 witness: the instructions were sent again for an unconfirmed account
\* whose token had expired; the account carries a token issued now.
C28_Witness ==
    /\ ret.op = "sendConfirmationInstructions"
    /\ ret.ok
    /\ ret.notified = "CONFIRMATION_INSTRUCTIONS"
    /\ users[ret.id].confirmedAt = NULL
    /\ users[ret.id].registeredAt < now
    /\ users[ret.id].confirmationSentAt = now
    /\ users[ret.id].confirmationTokenExpiryAt > now

\* C29: for an account whose recoveryToken is null, passwordReset rejects
\* (404) for every non-empty token and changes nothing; an account on which
\* passwordReset has resolved carries the recovery details that only
\* generateRecoveryToken stores.
C29_NoResetWithoutRequest ==
    /\ \A id \in Accounts, u \in Usernames, p \in Passwords, s \in Salts,
          t \in TokenInputs \ {NoToken} :
          (NamedByAlias(id, u) /\ users[id].recoveryToken = NoToken) =>
              LET r == passwordResetResult(u, p, t, s)
              IN /\ ~r.ret.ok
                 /\ r.ret.status = NotFound
                 /\ r.users = users
    /\ \A id \in Accounts :
          users[id].recoveredAt # NULL =>
              /\ users[id].recoveryToken # NoToken
              /\ users[id].recoverySentAt # NULL
              /\ users[id].recoverySentAt <= users[id].recoveredAt

\* C29 witness: passwordReset answered 404 while the only account holds no
\* recovery token.
C29_Witness ==
    /\ ret.op = "passwordReset"
    /\ ret.status = NotFound
    /\ Len(users) = 1
    /\ users[1].recoveryToken = NoToken

\* C30: in every reachable state confirmationToken is null iff
\* confirmationTokenExpiryAt is null, a confirmed account holds no
\* confirmationToken, and an account with emailVerifiedAt or phoneVerifiedAt
\* set is confirmed.
C30_ConfirmationFields ==
    \A id \in Accounts :
        /\ users[id].confirmationToken = NoToken
              <=> users[id].confirmationTokenExpiryAt = NULL
        /\ users[id].confirmedAt # NULL => users[id].confirmationToken = NoToken
        /\ (users[id].emailVerifiedAt # NULL \/ users[id].phoneVerifiedAt # NULL)
              => users[id].confirmedAt # NULL

\* C30 witness: sendConfirmationInstructions was called on an account that
\* confirm had confirmed through its email.
C30_Witness ==
    /\ ret.op = "sendConfirmationInstructions"
    /\ ret.ok
    /\ users[ret.id].confirmedAt # NULL
    /\ users[ret.id].emailVerifiedAt # NULL

\* C25: Model.register with an email equal, after lower-casing and trimming,
\* to the email of an existing account rejects and creates no account, also
\* for a call that prepared its document while another call for the same
\* email was in flight; no two accounts share an email, and the stored
\* emails are lower-cased and trimmed.
C25_NoDuplicateAccounts ==
    /\ \A i \in Accounts, j \in Accounts :
          (i # j /\ users[i].email # NoValue) => users[i].email # users[j].email
    /\ \A i \in Accounts : users[i].email \in Emails \cup {NoValue}
    /\ \A e \in RawEmails, ph \in Phones \cup {NoValue}, p \in Passwords,
          a \in BOOLEAN, n \in BOOLEAN :
          (\E i \in Accounts : users[i].email = lowercaseTrim(e)) =>
              LET r == registerResult(e, ph, p, 1, a, <<"2", "1">>, n)
              IN ~r.ret.ok /\ r.users = users
    /\ \A call \in pending, n \in BOOLEAN :
          (\E i \in Accounts : users[i].email = call.doc.email) =>
              LET r == saveRegisterable(call.doc, <<"2", "1">>, n)
              IN /\ ~r.ret.ok
                 /\ r.ret.message = "E11000 duplicate key"
                 /\ r.users = users

\* C25 witness: two calls for the same email started on the empty collection;
\* one has resolved with its account and the other is about to save.
C25_Witness ==
    /\ ret.op = "register"
    /\ ret.ok
    /\ users[ret.id].email = "a@x.io"
    /\ \E call \in pending :
          call.before = 0 /\ call.doc.email = "a@x.io"

\* C31: for an account whose recoveredAt is set, a Model.requestPasswordReset
\* (hook and save resolving) stores a fresh token with recoveredAt null and
\* sends one PASSWORD_RESET_INSTRUCTIONS notification; whenever the hook is
\* reached inside requestPasswordReset for an existing account, the
\* notification is sent.
C31_RecoveryRepeatable ==
    \A u \in Usernames, t \in TokenPool :
        (\E id \in Accounts : NamedByAlias(id, u)) =>
            LET r == requestPasswordResetResult(u, t, TRUE, TRUE)
                id == r.ret.id
            IN /\ r.ret.ok
               /\ r.ret.notified = "PASSWORD_RESET_INSTRUCTIONS"
               /\ users[id].recoveredAt # NULL =>
                     /\ r.users[id].recoveryToken = t
                     /\ r.users[id].recoveredAt = NULL
                     /\ r.users[id].recoverySentAt = now
                     /\ r.users[id].recoveryTokenExpiryAt =
                           now + options.recover_token_life * TicksPerDay
                     /\ r.users[id].password = users[id].password

\* C31 witness: requestPasswordReset has resolved with a notification on an
\* account whose password is the one a completed passwordReset stored (it is
\* not the password of the registration); the mark of the recovery is cleared.
C31_Witness ==
    /\ ret.op = "requestPasswordReset"
    /\ ret.ok
    /\ ret.notified = "PASSWORD_RESET_INSTRUCTIONS"
    /\ users[ret.id].password.text = <<"p", "1">>
    /\ users[ret.id].recoveredAt = NULL
    /\ users[ret.id].recoverySentAt = now

\* C32: when requestPasswordReset has sent a PASSWORD_RESET_INSTRUCTIONS
\* notification, the account stores the token of that notification: a
\* recoveryToken generated now (recoverySentAt = now) with its expiry.
C32_SentTokenPersisted ==
    (ret.op = "requestPasswordReset"
        /\ ret.notified = "PASSWORD_RESET_INSTRUCTIONS") =>
        /\ users[ret.id].recoveryToken # NoToken
        /\ users[ret.id].recoverySentAt = now
        /\ users[ret.id].recoveryTokenExpiryAt =
              now + options.recover_token_life * TicksPerDay

\* C33: when the promise of the static Model.sendConfirmationInstructions has
\* resolved for an unconfirmed account, the CONFIRMATION_INSTRUCTIONS
\* notification has been sent (a failing notification rejects the promise).
C33_StaticSendSettles ==
    (ret.op = "Model.sendConfirmationInstructions"
        /\ ret.ok
        /\ users[ret.id].confirmedAt = NULL) =>
        ret.notified = "CONFIRMATION_INSTRUCTIONS"

\* C34: with lockable.enabled, instance authenticate with a wrong password on
\* an unlocked account stores failedAttempts + 1; below
\* maximumAllowedFailedAttempts it rejects with the incorrect-credentials
\* error, and on reaching it the account is locked (lockedAt, unlock token and
\* expiry stored, unlock notification sent) and the call rejects with
\* 'Account locked. Check unlock instructions sent to you.'; with lockable
\* disabled failedAttempts does not change.
C34_FailedAttempts ==
    \A p \in Passwords, t \in TokenPool :
        (~compare(p, account.password) /\ account.lockedAt = NULL) =>
            LET r == instanceAuthenticateResult(p, t, TRUE)
                attempts == account.failedAttempts + 1
            IN IF ~options.lockable.enabled
               THEN r.account.failedAttempts = account.failedAttempts
               ELSE /\ r.account.failedAttempts = attempts
                    /\ ~r.ret.ok
                    /\ IF attempts < options.lockable.maximumAllowedFailedAttempts
                       THEN /\ r.ret.message = options.errorMessage
                            /\ r.account.lockedAt = NULL
                       ELSE /\ r.ret.message =
                                  "Account locked. Check unlock instructions sent to you."
                            /\ r.account.lockedAt = now
                            /\ r.account.unlockToken = t
                            /\ r.account.unlockTokenExpiryAt =
                                  now + options.lockable.tokenLifeSpan * TicksPerDay
                            /\ r.ret.notified = "Account recovery"

====
